---- MODULE Spec2Model ----
(***************************************************************************)
(* Model of the pomo terminal Pomodoro timer (src/src/main.rs):            *)
(* the PomodoroTimer engine and the run loop of main that drives it.       *)
(*                                                                         *)
(* Time.  The clock is discrete, TicksPerSec ticks to the second, so that  *)
(* the truncation of as_secs() is visible.  The code reads an Instant only *)
(* to take its distance to "now"; every Instant (last_update, flash_timer, *)
(* last_tick) is therefore kept as its age, now - instant, in ticks.  Ages *)
(* are cut at a cap beyond which the code cannot tell them apart.  All     *)
(* clock reads of one loop iteration after the poll see the same tick;     *)
(* time passes while the loop waits in event::poll.                        *)
(*                                                                         *)
(* Two specifications.  Spec is the program: main's loop, key by key and   *)
(* tick by tick.  EngineSpec calls the methods of PomodoroTimer in any     *)
(* order and after any delay, as the contracts of the engine are stated;  *)
(* it reaches calls the loop never makes (update while Paused, an update   *)
(* a minute late).                                                         *)
(***************************************************************************)
EXTENDS Integers, Sequences, FiniteSets, TLC

\* ---------------------------------------------------------------- bounds
\* clock ticks per second
TicksPerSec == 2
\* longest time, in ticks, one loop iteration (poll wait and draw) takes
MaxFrame == 3
\* largest --focus, and the f key is not pressed beyond it
MaxFocusMinutes == 1
\* largest --break-time, and the b key is not pressed beyond it
MaxBreakMinutes == 2
\* an update that would count a further cycle is not taken beyond this
MaxCycles == 1
\* number of method calls in a behaviour of EngineSpec
MaxCalls == 4
\* detached notification tasks followed at once (NotifySpec)
MaxTasks == 1
\* cycles counted in NotifySpec, whose loop has no duration keys
MaxNotifyCycles == 2
\* longest string handed to the renderer on its own (RenderSpec)
MaxText == 2

\* ------------------------------------------------------- program constants
\* minutes * 60
SecsPerMin == 60
\* Duration::from_secs(2) of the flash check
FlashSecs == 2
\* Duration::from_secs(1) of the tick gate
TickSecs == 1

\* ages in Spec are cut here: past the flash window plus the longest gap
\* between two updates nothing in the loop depends on an age any more
MaxAge == (FlashSecs + TickSecs) * TicksPerSec + MaxFrame
\* the age of last_tick is only ever compared with TickSecs
MaxTickAge == TickSecs * TicksPerSec

VARIABLES
    timer,          \* the PomodoroTimer owned by main
    last_tick,      \* age of main's last_tick
    pc,             \* position of main: "poll", "tick" or "done"
    op,             \* the operation the last step applied to the timer
    sound_needed,   \* what the last update returned (FALSE when none ran)
    notified,       \* whether the last step called play_notification_sound
    key,            \* the character of the key the last step handled, or ""
    update_age,     \* ticks since main last called update, cut at MaxTickAge
    pause_track,    \* history of the last pause, see Track
    paused_in,      \* the state that pause began in, or "none"
    paused_focus,   \* focus_remaining when that pause began
    paused_break,   \* break_remaining when that pause began
    resume_age,     \* ticks since the resume no update has followed, or -1
    calls,          \* number of method calls made so far (EngineSpec)
    arg,            \* minutes passed to the last call, 0 if none (EngineSpec)
    pending_focus,  \* focus length set while out of Focus, see Pending
    pending_break,  \* break length set while out of Break, see Pending
    tasks,          \* notification tasks spawned and not yet ended (NotifySpec)
    input_str,      \* the string last handed to get_ascii_digits (RenderSpec)
    rows            \* what get_ascii_digits returned for it, <<>> before

vars == <<timer, last_tick, pc, op, sound_needed, notified, key, update_age,
          paused_in,
          pause_track, paused_focus, paused_break, resume_age, calls,
          arg, pending_focus, pending_break, tasks, input_str, rows>>

rendered == <<input_str, rows>>

pending == <<pending_focus, pending_break>>

history == <<pause_track, paused_focus, paused_break, resume_age, paused_in>>

Min(a, b) == IF a < b THEN a ELSE b
Max(a, b) == IF a > b THEN a ELSE b

TimerState == {"Focus", "Break", "Paused"}

\* ------------------------------------------------------------ the engine

\* PomodoroTimer::new
new(focus_minutes, break_minutes) ==
    LET focus_duration == focus_minutes * SecsPerMin
        break_duration == break_minutes * SecsPerMin
    IN  [ focus_remaining    |-> focus_duration,
          break_remaining    |-> break_duration,
          focus_duration     |-> focus_duration,
          break_duration     |-> break_duration,
          state              |-> "Focus",
          last_update        |-> 0,
          total_cycles       |-> 0,
          notification_flash |-> FALSE,
          flash_timer        |-> 0 ]

\* as_secs, rounding to the nearest second instead of truncating
as_secs_rounded(ticks) == (2 * ticks + TicksPerSec) \div (2 * TicksPerSec)

\* now.duration_since(self.last_update).as_secs(): whole seconds, truncated
as_secs(ticks) == ticks \div TicksPerSec

\* update_focus with the comparison off by one: a countdown that reaches 0
\* exactly stays in Focus
update_focus_ge(t, elapsed) ==
    IF t.focus_remaining >= elapsed
    THEN [ t |-> [t EXCEPT !.focus_remaining = @ - elapsed],
           sound_needed |-> FALSE ]
    ELSE [ t |-> [t EXCEPT !.focus_remaining = 0,
                           !.state = "Break",
                           !.total_cycles = @ + 1,
                           !.notification_flash = TRUE,
                           !.flash_timer = 0],
           sound_needed |-> TRUE ]

\* the Focus arm of update's match
update_focus(t, elapsed) ==
    IF t.focus_remaining > elapsed
    THEN [ t |-> [t EXCEPT !.focus_remaining = @ - elapsed],
           sound_needed |-> FALSE ]
    ELSE [ t |-> [t EXCEPT !.focus_remaining = 0,
                           !.state = "Break",
                           !.total_cycles = @ + 1,
                           !.notification_flash = TRUE,
                           !.flash_timer = 0],
           sound_needed |-> TRUE ]

\* update_break without the restart of the focus countdown
update_break_keeps_focus(t, elapsed) ==
    IF t.break_remaining > elapsed
    THEN [ t |-> [t EXCEPT !.break_remaining = @ - elapsed],
           sound_needed |-> FALSE ]
    ELSE [ t |-> [t EXCEPT !.break_remaining = t.break_duration,
                           !.state = "Focus",
                           !.notification_flash = TRUE,
                           !.flash_timer = 0],
           sound_needed |-> TRUE ]

\* update_break that ends the break without asking for the sound
update_break_silent(t, elapsed) ==
    IF t.break_remaining > elapsed
    THEN [ t |-> [t EXCEPT !.break_remaining = @ - elapsed],
           sound_needed |-> FALSE ]
    ELSE [ t |-> [t EXCEPT !.break_remaining = t.break_duration,
                           !.focus_remaining = t.focus_duration,
                           !.state = "Focus",
                           !.notification_flash = TRUE,
                           !.flash_timer = 0],
           sound_needed |-> FALSE ]

\* the Break arm of update's match
update_break(t, elapsed) ==
    IF t.break_remaining > elapsed
    THEN [ t |-> [t EXCEPT !.break_remaining = @ - elapsed],
           sound_needed |-> FALSE ]
    ELSE [ t |-> [t EXCEPT !.break_remaining = t.break_duration,
                           !.focus_remaining = t.focus_duration,
                           !.state = "Focus",
                           !.notification_flash = TRUE,
                           !.flash_timer = 0],
           sound_needed |-> TRUE ]

\* update_paused that goes on counting the focus time down
update_paused_counts(t, elapsed) ==
    [ t |-> [t EXCEPT !.focus_remaining = IF @ > elapsed THEN @ - elapsed
                                                         ELSE 0],
      sound_needed |-> FALSE ]

\* the Paused arm of update's match
update_paused(t, elapsed) ==
    [ t |-> t, sound_needed |-> FALSE ]

\* update_flash that already clears the flash at exactly 2 seconds
update_flash_ge(t) ==
    IF t.notification_flash /\ t.flash_timer >= FlashSecs * TicksPerSec
    THEN [t EXCEPT !.notification_flash = FALSE]
    ELSE t

\* the flash check that ends update
update_flash(t) ==
    IF t.notification_flash /\ t.flash_timer > FlashSecs * TicksPerSec
    THEN [t EXCEPT !.notification_flash = FALSE]
    ELSE t

\* update that stamps last_update before it reads the elapsed time
update_stamp_first(t) ==
    LET t1      == [t EXCEPT !.last_update = 0]
        elapsed == as_secs(t1.last_update)
        arm     == CASE t1.state = "Focus"  -> update_focus(t1, elapsed)
                     [] t1.state = "Break"  -> update_break(t1, elapsed)
                     [] t1.state = "Paused" -> update_paused(t1, elapsed)
    IN  [ t |-> update_flash(arm.t), sound_needed |-> arm.sound_needed ]

\* PomodoroTimer::update: the timer after the call and the value returned
update(t) ==
    LET elapsed == as_secs(t.last_update)
        t1      == [t EXCEPT !.last_update = 0]
        arm     == CASE t1.state = "Focus"  -> update_focus(t1, elapsed)
                     [] t1.state = "Break"  -> update_break(t1, elapsed)
                     [] t1.state = "Paused" -> update_paused(t1, elapsed)
    IN  [ t |-> update_flash(arm.t), sound_needed |-> arm.sound_needed ]

\* toggle_pause that resumes into Break
toggle_pause_to_break(t) ==
    [t EXCEPT !.state = CASE t.state = "Focus"  -> "Paused"
                          [] t.state = "Break"  -> "Paused"
                          [] t.state = "Paused" -> "Break",
              !.last_update = 0]

\* toggle_pause that leaves last_update alone
toggle_pause_no_stamp(t) ==
    [t EXCEPT !.state = CASE t.state = "Focus"  -> "Paused"
                          [] t.state = "Break"  -> "Paused"
                          [] t.state = "Paused" -> "Focus"]

\* PomodoroTimer::toggle_pause
toggle_pause(t) ==
    [t EXCEPT !.state = CASE t.state = "Focus"  -> "Paused"
                          [] t.state = "Break"  -> "Paused"
                          [] t.state = "Paused" -> "Focus",
              !.last_update = 0]

\* reset that leaves the flash on
reset_keeps_flash(t) ==
    [t EXCEPT !.focus_remaining = t.focus_duration,
              !.break_remaining = t.break_duration,
              !.state = "Focus",
              !.last_update = 0]

\* reset that also clears the cycle count
reset_clears_cycles(t) ==
    [t EXCEPT !.focus_remaining = t.focus_duration,
              !.break_remaining = t.break_duration,
              !.state = "Focus",
              !.last_update = 0,
              !.total_cycles = 0,
              !.notification_flash = FALSE]

\* PomodoroTimer::reset
reset(t) ==
    [t EXCEPT !.focus_remaining = t.focus_duration,
              !.break_remaining = t.break_duration,
              !.state = "Focus",
              !.last_update = 0,
              !.notification_flash = FALSE]

\* adjust_focus_time that reloads focus_remaining in every state
adjust_focus_time_always(t, minutes) ==
    [t EXCEPT !.focus_duration = minutes * SecsPerMin,
              !.focus_remaining = minutes * SecsPerMin]

\* PomodoroTimer::adjust_focus_time
adjust_focus_time(t, minutes) ==
    LET t1 == [t EXCEPT !.focus_duration = minutes * SecsPerMin]
    IN  IF t1.state = "Focus"
        THEN [t1 EXCEPT !.focus_remaining = t1.focus_duration]
        ELSE t1

\* PomodoroTimer::adjust_break_time
adjust_break_time(t, minutes) ==
    LET t1 == [t EXCEPT !.break_duration = minutes * SecsPerMin]
    IN  IF t1.state = "Break"
        THEN [t1 EXCEPT !.break_remaining = t1.break_duration]
        ELSE t1

\* ---------------------------------------------------------- the renderer

\* A string the renderer reads character by character is a sequence of
\* one-character strings; a row of a glyph is a string, with # for the full
\* block, so its length is its width in characters.

\* the width of every row of the font and the number of rows of a glyph
GlyphWidth == 9
GlyphRows == 5

\* the characters '0'..='9' in order
DigitChars == <<"0", "1", "2", "3", "4", "5", "6", "7", "8", "9">>

\* a number in decimal, as format! writes it
RECURSIVE decimal(_)
decimal(n) ==
    IF n < 10 THEN <<DigitChars[n + 1]>>
              ELSE decimal(n \div 10) \o <<DigitChars[(n % 10) + 1]>>

\* {:02}: decimal, padded with zeros to two characters or more
pad2(n) == IF n < 10 THEN <<"0">> \o decimal(n) ELSE decimal(n)

\* PomodoroTimer::format_time
format_time(seconds) ==
    pad2(seconds \div 60) \o <<":">> \o pad2(seconds % 60)

\* the font of get_ascii_digits
digits ==
    << << " ######  ",
          "##    ## ",
          "##    ## ",
          "##    ## ",
          " ######  " >>,   \* 0
       << "   ##    ",
          " ####    ",
          "   ##    ",
          "   ##    ",
          " ######  " >>,   \* 1
       << " ######  ",
          "      ## ",
          " ######  ",
          "##       ",
          "######## " >>,   \* 2
       << " ######  ",
          "      ## ",
          " ######  ",
          "      ## ",
          " ######  " >>,   \* 3
       << "##    ## ",
          "##    ## ",
          "######## ",
          "      ## ",
          "      ## " >>,   \* 4
       << "######## ",
          "##       ",
          "#######  ",
          "      ## ",
          "#######  " >>,   \* 5
       << " ######  ",
          "##       ",
          "#######  ",
          "##    ## ",
          " ######  " >>,   \* 6
       << "######## ",
          "      ## ",
          "    ##   ",
          "  ##     ",
          "##       " >>,   \* 7
       << " ######  ",
          "##    ## ",
          " ######  ",
          "##    ## ",
          " ######  " >>,   \* 8
       << " ######  ",
          "##    ## ",
          " ####### ",
          "      ## ",
          " ######  " >>,   \* 9
       << "         ",
          "   ##    ",
          "         ",
          "   ##    ",
          "         " >>   \* : (colon)
    >>

\* char_to_index that takes glyph 0 for an unknown character
char_to_index_zero(c) ==
    IF \E i \in 1..Len(DigitChars) : DigitChars[i] = c
    THEN (CHOOSE i \in 1..Len(DigitChars) : DigitChars[i] = c) - 1
    ELSE IF c = ":" THEN 10 ELSE 0

\* the closure char_to_index of get_ascii_digits
char_to_index(c) ==
    IF \E i \in 1..Len(DigitChars) : DigitChars[i] = c
    THEN (CHOOSE i \in 1..Len(DigitChars) : DigitChars[i] = c) - 1
    ELSE IF c = ":" THEN 10 ELSE 10

\* the loop of get_ascii_digits from character k on, result being the rows
\* built so far
RECURSIVE push_glyphs(_, _, _)
push_glyphs(time_str, k, result) ==
    IF k > Len(time_str)
    THEN result
    ELSE LET digit_lines == digits[char_to_index(time_str[k]) + 1]
         IN  push_glyphs(time_str, k + 1,
                         [i \in 1..GlyphRows |-> result[i] \o digit_lines[i]])

\* PomodoroTimer::get_ascii_digits
get_ascii_digits(time_str) ==
    push_glyphs(time_str, 1, [i \in 1..GlyphRows |-> ""])

\* ------------------------------------------------------------- the clock

\* an age after d more ticks, cut at cap
Older(age, d, cap) == Min(age + d, cap)

\* the timer after d ticks have passed without a call
Pass(t, d, cap) ==
    [t EXCEPT !.last_update = Older(@, d, cap),
              !.flash_timer = Older(@, d, cap)]

\* ------------------------------------------------------------ the run loop

\* History of the last pause, kept for the properties about pausing:
\* pause_track is "paused" from a toggle_pause in Focus or Break on, "resumed"
\* from the toggle_pause that ends that pause until the next update, "charged"
\* in the state that update leaves, and "none" otherwise and after a reset.
\* The step is the call name made d ticks after the previous step.
Track(name, d) ==
    LET track == CASE name = "toggle_pause" /\ timer.state # "Paused" -> "paused"
                   [] name = "toggle_pause" /\ timer.state = "Paused"
                      -> "resumed"
                   [] name = "reset" -> "none"
                   [] name # "toggle_pause" /\ name # "reset"
                      /\ pause_track = "charged" -> "none"
                   [] OTHER -> pause_track
        pausing == name = "toggle_pause" /\ timer.state # "Paused"
    IN  /\ pause_track' = track
        /\ paused_focus' = CASE track = "none" -> 0
                             [] pausing -> timer.focus_remaining
                             [] OTHER -> paused_focus
        /\ paused_break' = CASE track = "none" -> 0
                             [] pausing -> timer.break_remaining
                             [] OTHER -> paused_break
        /\ paused_in' = CASE track = "none" -> "none"
                          [] pausing -> timer.state
                          [] OTHER -> paused_in
        /\ resume_age' = CASE track # "resumed" -> -1
                           [] name = "toggle_pause" -> 0
                           [] OTHER -> Older(resume_age, d, MaxAge)

\* one pass through the event handling of main's loop: the poll has returned
\* after d ticks and the key ch, if any, has been applied by the call name
Handle(d, ch, name, after) ==
    /\ timer' = after
    /\ last_tick' = Older(last_tick, d, MaxTickAge)
    /\ update_age' = Older(update_age, d, MaxTickAge)
    /\ pc' = "tick"
    /\ op' = name
    /\ key' = ch
    /\ sound_needed' = FALSE
    /\ notified' = FALSE
    /\ Track(name, d)
    /\ UNCHANGED <<calls, arg, pending, tasks, rendered>>

\* no event within the timeout, or an event the match ignores
PollNone ==
    /\ pc = "poll"
    /\ \E d \in 0..MaxFrame : Handle(d, "", "none", Pass(timer, d, MaxAge))

\* KeyCode::Char(' ')
KeySpace ==
    /\ pc = "poll"
    /\ \E d \in 0..MaxFrame :
          Handle(d, " ", "toggle_pause", toggle_pause(Pass(timer, d, MaxAge)))

\* KeyCode::Char('r')
KeyR ==
    /\ pc = "poll"
    /\ \E d \in 0..MaxFrame :
          Handle(d, "r", "reset", reset(Pass(timer, d, MaxAge)))

\* KeyCode::Char('f')
KeyFocusUp ==
    \E d \in 0..MaxFrame :
        LET current_focus == timer.focus_duration \div SecsPerMin
        IN  /\ pc = "poll"
            /\ current_focus + 1 <= MaxFocusMinutes
            /\ Handle(d, "f", "adjust_focus_time",
                      adjust_focus_time(Pass(timer, d, MaxAge),
                                        Max(current_focus + 1, 1)))

\* KeyCode::Char('F'); saturating_sub(1) is Max(current_focus - 1, 0)
KeyFocusDown ==
    \E d \in 0..MaxFrame :
        LET current_focus == timer.focus_duration \div SecsPerMin
        IN  /\ pc = "poll"
            /\ Handle(d, "F", "adjust_focus_time",
                      adjust_focus_time(Pass(timer, d, MaxAge),
                                        Max(Max(current_focus - 1, 0), 1)))

\* KeyCode::Char('b')
KeyBreakUp ==
    \E d \in 0..MaxFrame :
        LET current_break == timer.break_duration \div SecsPerMin
        IN  /\ pc = "poll"
            /\ current_break + 1 <= MaxBreakMinutes
            /\ Handle(d, "b", "adjust_break_time",
                      adjust_break_time(Pass(timer, d, MaxAge),
                                        Max(current_break + 1, 1)))

\* KeyCode::Char('B'); saturating_sub(1) is Max(current_break - 1, 0)
KeyBreakDown ==
    \E d \in 0..MaxFrame :
        LET current_break == timer.break_duration \div SecsPerMin
        IN  /\ pc = "poll"
            /\ Handle(d, "B", "adjust_break_time",
                      adjust_break_time(Pass(timer, d, MaxAge),
                                        Max(Max(current_break - 1, 0), 1)))

\* KeyCode::Char('q'): break out of the loop
KeyQ ==
    /\ pc = "poll"
    /\ pc' = "done"
    /\ op' = "quit"
    /\ key' = "q"
    /\ sound_needed' = FALSE
    /\ notified' = FALSE
    /\ UNCHANGED <<timer, last_tick, update_age, history, calls, arg, pending,
                   tasks, rendered>>

\* the gate without the clock: an update in every frame of a running timer
TickDue_every_frame == timer.state # "Paused"

\* the gate of "Update timer" in main's loop
TickDue ==
    /\ timer.state # "Paused"
    /\ last_tick >= TickSecs * TicksPerSec

\* "Update timer" and "Draw UI" of main's loop: the gated call of update, the
\* notification it asks for, and the draw, which changes nothing; cycles is
\* the count at which the model stops
TickBody(cycles) ==
    /\ pc' = "poll"
    /\ key' = ""
    /\ UNCHANGED <<calls, arg, pending, rendered>>
    /\ IF TickDue
       THEN LET r == update(timer)
            IN  /\ r.t.total_cycles <= cycles
                /\ timer' = r.t
                /\ sound_needed' = r.sound_needed
                /\ notified' = r.sound_needed
                /\ last_tick' = 0
                /\ update_age' = 0
                /\ op' = "update"
                /\ pause_track' = IF pause_track = "resumed" THEN "charged"
                                                             ELSE pause_track
                /\ resume_age' = -1
                /\ UNCHANGED <<paused_focus, paused_break, paused_in>>
       ELSE /\ op' = "skip"
            /\ sound_needed' = FALSE
            /\ notified' = FALSE
            /\ UNCHANGED <<timer, last_tick, update_age, history>>

\* the loop's tick where the notification task is not followed
Tick ==
    /\ pc = "tick"
    /\ TickBody(MaxCycles)
    /\ UNCHANGED tasks

\* the startup arguments --focus and --break-time
StartFocus == 0..MaxFocusMinutes
StartBreak == 0..MaxBreakMinutes

Init ==
    /\ \E fm \in StartFocus, bm \in StartBreak : timer = new(fm, bm)
    /\ last_tick = 0
    /\ pc = "poll"
    /\ op = "new"
    /\ sound_needed = FALSE
    /\ notified = FALSE
    /\ key = ""
    /\ update_age = MaxTickAge
    /\ pause_track = "none"
    /\ paused_in = "none"
    /\ paused_focus = 0
    /\ paused_break = 0
    /\ resume_age = -1
    /\ calls = 0
    /\ arg = 0
    /\ pending_focus = -1
    /\ pending_break = -1
    /\ tasks = 0
    /\ input_str = <<>>
    /\ rows = <<>>

Next ==
    \/ PollNone
    \/ KeySpace
    \/ KeyR
    \/ KeyFocusUp
    \/ KeyFocusDown
    \/ KeyBreakUp
    \/ KeyBreakDown
    \/ KeyQ
    \/ Tick

Spec == Init /\ [][Next]_vars

\* ------------------------------------------------- the engine on its own

\* ages in EngineSpec are cut here: one second past the longest phase
EngineMaxAge == (MaxBreakMinutes * SecsPerMin + 1) * TicksPerSec

\* the delays, in ticks, between two calls: half a second, the flash window
\* and just past it, and a minute less a second, a minute, just past a minute
Delays ==
    { 1, FlashSecs * TicksPerSec, FlashSecs * TicksPerSec + 1,
      (SecsPerMin - 1) * TicksPerSec, SecsPerMin * TicksPerSec,
      SecsPerMin * TicksPerSec + 1 }

\* time passes between two calls
EngineWait ==
    /\ op # "wait"
    /\ \E d \in Delays : timer' = Pass(timer, d, EngineMaxAge)
    /\ op' = "wait"
    /\ sound_needed' = FALSE
    /\ UNCHANGED <<last_tick, pc, notified, key, update_age, history, calls,
                   arg, pending, tasks, rendered>>

\* History of the duration changes, kept for the property about them:
\* pending_focus is the focus length, in seconds, that adjust_focus_time set
\* while the state was not Focus, from that call until the state is Focus
\* again or another adjustment or a reset is made, and -1 otherwise;
\* pending_break is the same for adjust_break_time and Break.
Pending(name, minutes, after) ==
    /\ pending_focus' =
          CASE name = "adjust_focus_time" /\ timer.state # "Focus"
                  -> minutes * SecsPerMin
            [] name \in {"adjust_focus_time", "adjust_break_time", "reset"}
                  -> -1
            [] after.state = "Focus" -> -1
            [] OTHER -> pending_focus
    /\ pending_break' =
          CASE name = "adjust_break_time" /\ timer.state # "Break"
                  -> minutes * SecsPerMin
            [] name \in {"adjust_focus_time", "adjust_break_time", "reset"}
                  -> -1
            [] after.state = "Break" -> -1
            [] OTHER -> pending_break

\* a method call with argument minutes (0 if it takes none) that leaves the
\* timer as after and returns ret
Call(name, minutes, after, ret) ==
    /\ calls' = calls + 1
    /\ arg' = minutes
    /\ Pending(name, minutes, after)
    /\ timer' = after
    /\ op' = name
    /\ sound_needed' = ret
    /\ UNCHANGED <<last_tick, pc, notified, key, update_age, history, tasks,
                   rendered>>

\* timer.update()
CallUpdate ==
    LET r == update(timer)
    IN  /\ calls < MaxCalls
        /\ r.t.total_cycles <= MaxCycles
        /\ Call("update", 0, r.t, r.sound_needed)

\* timer.toggle_pause()
CallTogglePause ==
    /\ calls < MaxCalls
    /\ Call("toggle_pause", 0, toggle_pause(timer), FALSE)

\* timer.reset()
CallReset ==
    /\ calls < MaxCalls
    /\ Call("reset", 0, reset(timer), FALSE)

\* timer.adjust_focus_time(m), m clamped to 1 or more by the caller
CallAdjustFocus ==
    /\ calls < MaxCalls
    /\ \E m \in 1..MaxFocusMinutes :
          Call("adjust_focus_time", m, adjust_focus_time(timer, m), FALSE)

\* timer.adjust_break_time(m), m clamped to 1 or more by the caller
CallAdjustBreak ==
    /\ calls < MaxCalls
    /\ \E m \in 1..MaxBreakMinutes :
          Call("adjust_break_time", m, adjust_break_time(timer, m), FALSE)

EngineNext ==
    \/ EngineWait
    \/ CallUpdate
    \/ CallTogglePause
    \/ CallReset
    \/ CallAdjustFocus
    \/ CallAdjustBreak

EngineSpec == Init /\ [][EngineNext]_vars

\* ------------------------------------- the loop and its notification tasks

\* play_notification_sound: the task is spawned and the call returns; the
\* count of tasks in flight is cut at MaxTasks
play_notification_sound(n) == Min(n + 1, MaxTasks)

\* the ways a notification task ends: no audio device, no sink, or the three
\* beeps played to their end
Outcomes == {"no_device", "no_sink", "played"}

\* the notification task that lets an audio error end the program
notification_task_fatal(outcome, p) ==
    IF outcome = "played" THEN p ELSE "done"

\* the body of the spawned task, as far as main can see it: main's position
\* p after the task has ended with outcome
notification_task(outcome, p) == p

\* the loop's tick, with the task it spawns
TickSpawn ==
    /\ pc = "tick"
    /\ TickBody(MaxNotifyCycles)
    /\ tasks' = IF notified' THEN play_notification_sound(tasks) ELSE tasks

\* a notification task ends, at any time after its spawn, or never
TaskEnds ==
    /\ tasks > 0
    /\ tasks' = tasks - 1
    /\ \E outcome \in Outcomes : pc' = notification_task(outcome, pc)
    /\ UNCHANGED <<timer, last_tick, op, sound_needed, notified, key,
                   update_age, history, calls, arg, pending, rendered>>

\* the duration keys are left out: they change neither what is spawned nor
\* what the tasks can reach
NotifyNext ==
    \/ PollNone
    \/ KeySpace
    \/ KeyR
    \/ KeyQ
    \/ TickSpawn
    \/ TaskEnds

NotifySpec == Init /\ [][NotifyNext]_vars

\* ------------------------------------------------ the loop that keeps running

\* a poll that returns without a key after time has passed
PollWait ==
    /\ pc = "poll"
    /\ \E d \in 1..MaxFrame : Handle(d, "", "none", Pass(timer, d, MaxAge))

\* the loop without the duration keys
LiveNext ==
    \/ PollNone
    \/ KeySpace
    \/ KeyR
    \/ KeyQ
    \/ Tick

\* The loop never blocks between the event handling and the tick, so a tick
\* that is due is taken; and the clock goes on, so among the polls that
\* return without a key there is always a later one that finds time passed.
LiveSpec ==
    /\ Init
    /\ [][LiveNext]_vars
    /\ WF_vars(Tick)
    /\ SF_vars(PollWait)

\* ------------------------------------------------ the renderer on its own

\* the characters handed to the renderer: the digits, the colon and two
\* characters the font does not have
Chars == {DigitChars[i] : i \in 1..Len(DigitChars)} \cup {":", " ", "x"}

\* every string of at most MaxText of these characters
Texts == UNION {[1..n -> Chars] : n \in 0..MaxText}

\* the times drawn: around the turn of ten seconds, a minute, ten minutes
\* and a hundred minutes, where format_time's fields widen
Seconds == {0, 9, 10, 59, 60, 61, 599, 600, 3599, 3600, 5999, 6000, 60000}

\* the state all but the renderer's
unrendered == <<timer, last_tick, pc, op, sound_needed, notified, key,
                update_age, history, calls, arg, pending, tasks>>

\* get_ascii_digits called on a string; the function keeps no state, so a
\* run follows one call
RenderText ==
    /\ rows = <<>>
    /\ \E txt \in Texts :
          /\ input_str' = txt
          /\ rows' = get_ascii_digits(txt)
    /\ UNCHANGED unrendered

\* draw_ui's use of the renderer: get_ascii_digits(&format_time(seconds))
DrawTime ==
    /\ rows = <<>>
    /\ \E seconds \in Seconds :
          /\ input_str' = format_time(seconds)
          /\ rows' = get_ascii_digits(format_time(seconds))
    /\ UNCHANGED unrendered

RenderNext ==
    \/ RenderText
    \/ DrawTime

RenderSpec == Init /\ [][RenderNext]_vars

\* ------------------------------------------------------------ properties

\* the whole seconds update takes as elapsed when called in the current state
Elapsed == timer.last_update \div TicksPerSec

\* the step is a call of update (in Spec: a tick that passed the gate)
UpdateStep == op' = "update"

\* C1: in every reachable state 0 <= focus_remaining <= focus_duration and
\* 0 <= break_remaining <= break_duration.
C1_RemainingWithinDuration ==
    /\ 0 <= timer.focus_remaining
    /\ timer.focus_remaining <= timer.focus_duration
    /\ 0 <= timer.break_remaining
    /\ timer.break_remaining <= timer.break_duration

\* C2: an update taken in Focus with elapsed >= focus_remaining leaves
\* state = Break, focus_remaining = 0, break_remaining unchanged, total_cycles
\* one higher and notification_flash set, and returns true.
C2_FocusCompletes ==
    [][ (UpdateStep /\ timer.state = "Focus"
                    /\ Elapsed >= timer.focus_remaining)
        => /\ timer'.state = "Break"
           /\ timer'.focus_remaining = 0
           /\ timer'.break_remaining = timer.break_remaining
           /\ timer'.total_cycles = timer.total_cycles + 1
           /\ timer'.notification_flash
           /\ sound_needed' ]_vars

\* an update has just ended a focus minute: Break, one cycle, flash, chime
C2_Witness ==
    /\ op = "update"
    /\ sound_needed
    /\ timer.state = "Break"
    /\ timer.focus_duration = SecsPerMin
    /\ timer.focus_remaining = 0
    /\ timer.total_cycles = 1
    /\ timer.notification_flash

\* C3: an update taken in Break with elapsed >= break_remaining leaves
\* state = Focus, focus_remaining = focus_duration, break_remaining =
\* break_duration, total_cycles unchanged and notification_flash set, and
\* returns true.
C3_BreakCompletes ==
    [][ (UpdateStep /\ timer.state = "Break"
                    /\ Elapsed >= timer.break_remaining)
        => /\ timer'.state = "Focus"
           /\ timer'.focus_remaining = timer.focus_duration
           /\ timer'.break_remaining = timer.break_duration
           /\ timer'.focus_duration = timer.focus_duration
           /\ timer'.break_duration = timer.break_duration
           /\ timer'.total_cycles = timer.total_cycles
           /\ timer'.notification_flash
           /\ sound_needed' ]_vars

\* an update has just ended a break minute: back in Focus with both countdowns
\* restored, the cycle count still 1, flash, chime
C3_Witness ==
    /\ op = "update"
    /\ sound_needed
    /\ timer.state = "Focus"
    /\ timer.total_cycles = 1
    /\ timer.break_duration = SecsPerMin
    /\ timer.focus_duration = SecsPerMin
    /\ timer.focus_remaining = SecsPerMin
    /\ timer.break_remaining = SecsPerMin
    /\ timer.notification_flash

\* C4: an update taken in Focus or Break with elapsed smaller than the active
\* phase's remaining time takes exactly elapsed off that remaining time, leaves
\* state, the other remaining time, both durations and total_cycles as they
\* were, and returns false.
C4_Countdown ==
    [][ /\ (UpdateStep /\ timer.state = "Focus"
                       /\ Elapsed < timer.focus_remaining)
           => /\ timer'.focus_remaining = timer.focus_remaining - Elapsed
              /\ timer'.break_remaining = timer.break_remaining
              /\ timer'.state = "Focus"
              /\ timer'.focus_duration = timer.focus_duration
              /\ timer'.break_duration = timer.break_duration
              /\ timer'.total_cycles = timer.total_cycles
              /\ ~sound_needed'
        /\ (UpdateStep /\ timer.state = "Break"
                       /\ Elapsed < timer.break_remaining)
           => /\ timer'.break_remaining = timer.break_remaining - Elapsed
              /\ timer'.focus_remaining = timer.focus_remaining
              /\ timer'.state = "Break"
              /\ timer'.focus_duration = timer.focus_duration
              /\ timer'.break_duration = timer.break_duration
              /\ timer'.total_cycles = timer.total_cycles
              /\ ~sound_needed' ]_vars

\* an update has just taken 59 seconds off a break of one minute
C4_Witness ==
    /\ op = "update"
    /\ ~sound_needed
    /\ timer.state = "Break"
    /\ timer.break_duration = SecsPerMin
    /\ timer.break_remaining = 1

\* C5 as claimed: an update taken while Paused changes no field other than
\* last_update and returns false.
C5_PausedUpdateNoOp ==
    [][ (UpdateStep /\ timer.state = "Paused")
        => /\ timer' = [timer EXCEPT !.last_update = 0]
           /\ ~sound_needed' ]_vars

\* C5 as amended: an update taken while Paused returns false and changes no
\* field other than last_update and notification_flash; notification_flash
\* stays set only while no more than 2 seconds have passed since flash_timer.
C5_PausedUpdateOnlyFlash ==
    [][ (UpdateStep /\ timer.state = "Paused")
        => /\ timer' = [timer EXCEPT
                          !.last_update = 0,
                          !.notification_flash =
                              @ /\ timer.flash_timer <= FlashSecs * TicksPerSec]
           /\ ~sound_needed' ]_vars

\* an update has just run on a timer paused during a break, two seconds or
\* more after the flash began
C5_Witness ==
    /\ op = "update"
    /\ timer.state = "Paused"
    /\ timer.total_cycles = 1
    /\ timer.focus_remaining = 0
    /\ timer.flash_timer >= FlashSecs * TicksPerSec

\* C6: toggle_pause takes Focus and Break to Paused and Paused to Focus, and
\* changes no field other than state and last_update.
C6_TogglePause ==
    [][ (op' = "toggle_pause")
        => timer' = [timer EXCEPT
                       !.state = IF timer.state = "Paused" THEN "Focus"
                                                           ELSE "Paused",
                       !.last_update = 0] ]_vars

\* toggle_pause has just resumed a timer that was paused during its break:
\* it is in Focus, with the focus countdown still at 0
C6_Witness ==
    /\ op = "toggle_pause"
    /\ timer.state = "Focus"
    /\ timer.total_cycles = 1
    /\ timer.focus_duration = SecsPerMin
    /\ timer.focus_remaining = 0

\* C8: reset leaves focus_remaining = focus_duration, break_remaining =
\* break_duration, state = Focus and notification_flash = false, leaves
\* total_cycles and both durations unchanged, and a second reset changes
\* nothing more.
C8_Reset ==
    [][ (op' = "reset")
        => /\ timer' = [timer EXCEPT
                          !.focus_remaining = timer.focus_duration,
                          !.break_remaining = timer.break_duration,
                          !.state = "Focus",
                          !.notification_flash = FALSE,
                          !.last_update = 0]
           /\ reset(timer') = timer' ]_vars

\* reset has just restored a timer that had counted a cycle: both countdowns
\* are at one minute, the cycle is still counted
C8_Witness ==
    /\ op = "reset"
    /\ timer.total_cycles = 1
    /\ timer.state = "Focus"
    /\ timer.focus_remaining = timer.focus_duration
    /\ timer.break_remaining = timer.break_duration
    /\ timer.focus_duration = SecsPerMin
    /\ timer.break_duration = SecsPerMin
    /\ ~timer.notification_flash

\* C7: a pause charges no time.  At the toggle_pause that ends a pause begun
\* in Focus or Break (no reset in between), focus_remaining and
\* break_remaining are what they were when the pause began, however long it
\* lasted; and the first update after that resume takes off each countdown at
\* most the whole seconds that have passed since the resume.
C7_PauseNotCharged ==
    [][ /\ (op' = "toggle_pause" /\ timer.state = "Paused")
           => /\ pause_track = "paused"
              /\ timer'.focus_remaining = paused_focus
              /\ timer'.break_remaining = paused_break
        /\ (UpdateStep /\ pause_track = "resumed")
           => /\ timer.focus_remaining - timer'.focus_remaining
                    <= resume_age \div TicksPerSec
              /\ timer.break_remaining - timer'.break_remaining
                    <= resume_age \div TicksPerSec ]_vars

\* the first update after a resume has just run, well after the flash of the
\* transition before the pause went stale, and the focus countdown is still
\* what it was when the pause began
C7_Witness ==
    /\ pause_track = "charged"
    /\ timer.state = "Focus"
    /\ timer.focus_remaining = paused_focus
    /\ paused_focus > 0
    /\ timer.total_cycles = 1
    /\ timer.flash_timer >= MaxAge

\* C9: total_cycles starts at 0 and never decreases; a step changes it only
\* if it is an update that moves state from Focus to Break, and then by
\* exactly 1.
C9_CyclesCountFocusEnds ==
    /\ timer.total_cycles = 0
    /\ [][ timer'.total_cycles # timer.total_cycles
           => /\ UpdateStep
              /\ timer.state = "Focus"
              /\ timer'.state = "Break"
              /\ timer'.total_cycles = timer.total_cycles + 1 ]_vars

\* an update has just ended a break and the cycle count is still 1
C9_Witness ==
    /\ op = "update"
    /\ sound_needed
    /\ timer.state = "Focus"
    /\ timer.total_cycles = 1
    /\ timer.focus_duration = SecsPerMin
    /\ timer.break_duration = SecsPerMin

\* the longest time, in ticks, between two updates of a timer that is not
\* paused: the tick gate plus the frame that crosses it
StepInterval == TickSecs * TicksPerSec + MaxFrame - 1

\* C10: notification_flash is set only within 2 seconds plus one
\* accounting-step interval of the transition that set it, in every state of
\* every run of the loop.
C10_FlashClearsInTime ==
    timer.notification_flash
        => timer.flash_timer <= FlashSecs * TicksPerSec + StepInterval

\* C11: an update that does not itself change the phase clears
\* notification_flash exactly when at least 2 seconds have passed since the
\* flash was set: at exactly 2 seconds or more the flash goes off, before 2
\* seconds it stays on.
C11_FlashClearsAtTwoSeconds ==
    [][ (UpdateStep /\ timer.notification_flash /\ ~sound_needed')
        => (timer'.notification_flash
               <=> timer.flash_timer < FlashSecs * TicksPerSec) ]_vars

\* C11 as the code has it: an update that does not itself change the phase
\* clears notification_flash exactly when more than 2 seconds have passed
\* since the flash was set; at exactly 2 seconds, and before, it stays on.
C11_FlashClearsAfterTwoSeconds ==
    [][ (UpdateStep /\ timer.notification_flash /\ ~sound_needed')
        => /\ timer'.notification_flash
                 <=> timer.flash_timer <= FlashSecs * TicksPerSec
           /\ timer'.flash_timer = timer.flash_timer ]_vars

\* an update taken exactly 2 seconds after a transition has left the flash on
C11_Witness ==
    /\ op = "update"
    /\ ~sound_needed
    /\ timer.notification_flash
    /\ timer.flash_timer = FlashSecs * TicksPerSec
    /\ timer.total_cycles = 1

\* C12: adjust_focus_time(m) sets focus_duration to 60*m and, only in state
\* Focus, focus_remaining to 60*m too; adjust_break_time(m) does the same for
\* the break fields and state Break. Each leaves every other field as it was:
\* the state, total_cycles, the flash, the clocks and the other phase's fields.
C12_AdjustSetsDuration ==
    [][ /\ op' = "adjust_focus_time"
           => timer' = [timer EXCEPT
                          !.focus_duration = SecsPerMin * arg',
                          !.focus_remaining =
                              IF timer.state = "Focus" THEN SecsPerMin * arg'
                                                       ELSE @]
        /\ op' = "adjust_break_time"
           => timer' = [timer EXCEPT
                          !.break_duration = SecsPerMin * arg',
                          !.break_remaining =
                              IF timer.state = "Break" THEN SecsPerMin * arg'
                                                       ELSE @] ]_vars

\* adjust_break_time(1) has been called on a paused timer with a 2-minute
\* break partly run, and has left break_remaining alone
C12_Witness ==
    /\ op = "adjust_break_time"
    /\ arg = 1
    /\ timer.state = "Paused"
    /\ timer.break_duration = SecsPerMin
    /\ timer.break_remaining > SecsPerMin
    /\ timer.break_remaining < 2 * SecsPerMin

\* C13: a duration changed while its phase is not the active one takes effect
\* when that phase next starts: if no adjustment or reset has followed the
\* change, the update that enters the phase leaves its remaining time equal
\* to the changed duration. This is stated for both phases.
C13_PendingDurationApplies ==
    [][ UpdateStep
        => /\ (timer.state = "Break" /\ timer'.state = "Focus"
               /\ pending_focus # -1)
              => timer'.focus_remaining = pending_focus
           /\ (timer.state = "Focus" /\ timer'.state = "Break"
               /\ pending_break # -1)
              => timer'.break_remaining = pending_break ]_vars

\* the configured minutes of the two phases
focus_minutes == timer.focus_duration \div SecsPerMin
break_minutes == timer.break_duration \div SecsPerMin

\* C14: in every state of the program, from construction on, focus_duration
\* and break_duration are at least 60 seconds; keys 'f' and 'b' raise the
\* minutes of their phase by exactly 1, and keys 'F' and 'B' lower them by
\* exactly 1, except at 1 minute, where they stay 1.
C14_DurationsAtLeastOneMinute ==
    /\ [](timer.focus_duration >= SecsPerMin
          /\ timer.break_duration >= SecsPerMin)
    /\ [][ /\ key' = "f" => focus_minutes' = focus_minutes + 1
           /\ key' = "b" => break_minutes' = break_minutes + 1
           /\ key' = "F" => focus_minutes' = IF focus_minutes = 1 THEN 1
                                             ELSE focus_minutes - 1
           /\ key' = "B" => break_minutes' = IF break_minutes = 1 THEN 1
                                             ELSE break_minutes - 1 ]_vars

\* everything but the notification tasks
loop == <<timer, last_tick, pc, op, sound_needed, notified, key, update_age,
          history, calls, arg, pending, rendered>>

\* the update that is due would pass MaxNotifyCycles, where the model stops
CyclesSpent == TickDue /\ update(timer).t.total_cycles > MaxNotifyCycles

\* C15: a notification task cannot affect the timer. A step that changes the
\* tasks in flight is either the tick that spawns one, which acts on the
\* loop's state exactly as it does when no task is followed, or the end of a
\* task, which for every outcome, and however late, leaves the whole state of
\* the loop unchanged; and the loop's next step is enabled whether or not
\* tasks are in flight, so the loop never waits for one.
C15_TaskCannotAffectTimer ==
    /\ [][ tasks' # tasks
           => \/ pc = "tick" /\ TickBody(MaxNotifyCycles)
              \/ UNCHANGED loop ]_vars
    /\ [](pc = "poll" => ENABLED PollNone)
    /\ [](pc = "tick" /\ ~CyclesSpent => ENABLED TickSpawn)

\* the loop has made an update, a full second or more after the one that
\* spawned a task, while that task is still in flight
C15_Witness ==
    /\ tasks > 0
    /\ op = "update"
    /\ ~notified
    /\ timer.state = "Break"
    /\ timer.break_remaining < timer.break_duration
    /\ timer.total_cycles = 1

\* the glyph the font has for a character: its own for a digit, the colon's
\* for the colon and for every other character
glyph_of(c) ==
    CASE c = "0" -> digits[1] [] c = "1" -> digits[2] [] c = "2" -> digits[3]
      [] c = "3" -> digits[4] [] c = "4" -> digits[5] [] c = "5" -> digits[6]
      [] c = "6" -> digits[7] [] c = "7" -> digits[8] [] c = "8" -> digits[9]
      [] c = "9" -> digits[10] [] OTHER -> digits[11]

\* row i of the glyphs of a string, side by side in the string's order
RECURSIVE glyph_row(_, _)
glyph_row(str, i) ==
    IF str = <<>> THEN ""
                  ELSE glyph_of(Head(str))[i] \o glyph_row(Tail(str), i)

\* C16: get_ascii_digits returns exactly 5 rows for every string, 5 empty
\* rows for the empty string; all rows are as long as the glyph width times
\* the number of characters of the string; row i is row i of each character's
\* glyph side by side in the string's order, a character other than 0-9 and
\* ':' being drawn with the glyph of ':'.
C16_RenderRows ==
    rows # <<>>
    => /\ DOMAIN rows = 1..GlyphRows
       /\ \A i \in 1..GlyphRows :
             /\ Len(rows[i]) = GlyphWidth * Len(input_str)
             /\ rows[i] = glyph_row(input_str, i)
       /\ input_str = <<>> => rows = <<"", "", "", "", "">>

\* a digit and a character the font does not have have been rendered, in
\* that order
C16_Witness ==
    /\ input_str = <<"7", "x">>
    /\ rows = [i \in 1..GlyphRows |-> digits[8][i] \o digits[11][i]]
    /\ Len(rows[1]) = 2 * GlyphWidth

\* C17: the loop calls update only when the state is not Paused and at least
\* one second has passed since its previous call of update, and at most once
\* per frame: a poll lies between any two calls. So no two updates are less
\* than a second apart and none runs on a paused timer.
C17_UpdateGated ==
    [][ UpdateStep
        => /\ timer.state # "Paused"
           /\ update_age >= TickSecs * TicksPerSec
           /\ pc = "tick"
           /\ op \notin {"update", "skip"} ]_vars

\* a second update has been made, a second or more after the first
C17_Witness ==
    /\ op = "update"
    /\ update_age = 0
    /\ ~sound_needed
    /\ timer.state = "Break"
    /\ timer.total_cycles = 1
    /\ timer.break_remaining = timer.break_duration - TickSecs

\* C18: update returns true exactly when it changes the state (Focus to Break
\* or Break to Focus), and the loop calls play_notification_sound in exactly
\* the steps in which an update changes the state, once, and in no other
\* step: not on a pause, a resume, a reset, a duration key or an update that
\* only counts down.
C18_NotifyOnPhaseChange ==
    [][ /\ UpdateStep => (sound_needed' <=> timer'.state # timer.state)
        /\ notified' <=> (UpdateStep /\ timer'.state # timer.state)
        /\ timer'.state # timer.state /\ UpdateStep
           => {timer.state, timer'.state} = {"Focus", "Break"} ]_vars

\* the update that ended a 2-minute break has asked for the sound and the
\* loop has called play_notification_sound
C18_Witness ==
    /\ op = "update"
    /\ notified
    /\ sound_needed
    /\ timer.state = "Focus"
    /\ timer.break_duration = 2 * SecsPerMin
    /\ timer.break_remaining = timer.break_duration
    /\ timer.total_cycles = 1

\* C19: after a pause begun in Break and the resume that ends it (state
\* Focus), the next update, if it finds less time elapsed than
\* focus_duration, leaves the state Focus and total_cycles unchanged: the
\* timer does not go back to Break, nor count a cycle, before a full focus
\* countdown has run.
C19_ResumeFromBreakRunsFocus ==
    [][ ( /\ UpdateStep
          /\ pause_track = "resumed"
          /\ paused_in = "Break"
          /\ timer.state = "Focus"
          /\ Elapsed < timer.focus_duration )
        => /\ timer'.state = "Focus"
           /\ timer'.total_cycles = timer.total_cycles ]_vars

\* a key has been handled since the last tick
CommandGiven == key # ""

\* C20: while the loop runs, time advances and no command is given, the
\* phases alternate: from every state in Focus the timer reaches Break, from
\* every state in Break it reaches Focus, and total_cycles goes up each time
\* round; followed here up to MaxCycles cycles.
C20_PhasesAlternate ==
    /\ (pc = "poll" /\ timer.state = "Focus" /\ timer.total_cycles < MaxCycles)
          ~> (timer.state = "Break" \/ CommandGiven)
    /\ (pc = "poll" /\ timer.state = "Break")
          ~> (timer.state = "Focus" \/ CommandGiven)
    /\ \A n \in 0..(MaxCycles - 1) :
          (pc = "poll" /\ timer.state = "Focus" /\ timer.total_cycles = n)
             ~> (timer.total_cycles = n + 1 \/ CommandGiven)

\* a focus minute and then a break minute have run out with no key since the
\* start
C20_Witness ==
    /\ op = "update"
    /\ sound_needed
    /\ timer.state = "Focus"
    /\ timer.total_cycles = 1
    /\ timer.focus_remaining = SecsPerMin
    /\ timer.break_remaining = SecsPerMin
    /\ pause_track = "none"
    /\ timer.focus_duration = SecsPerMin

====
